---- MODULE Spec2Model ----
(***************************************************************************)
(* SeleniumMiddleware (scrapy_selenium/middlewares.py): the crawler builds *)
(* the middleware with from_crawler, hands it requests through             *)
(* process_request and fires spider_closed at the end of the crawl.        *)
(* Python values are tagged records ([py |-> <type>, ...]) so that None, a *)
(* number, a string, a list and a dict stay distinguishable.               *)
(***************************************************************************)
EXTENDS Integers, Sequences, FiniteSets

VARIABLES
    settings,      \* crawler.settings, fixed for the crawl
    outcome,       \* how from_crawler ended: "pending" before it is called
    connected,     \* spider_closed is connected to signals.spider_closed
    middleware,    \* the SeleniumMiddleware object: [timeout, driver]
    drivers,       \* every WebDriver ever constructed, in order of construction
    handler,       \* the handler that ran last
    request,       \* the request handed to the last process_request (as passed)
    meta,          \* request.meta when that process_request ended
    result,        \* what that process_request returned or raised
    calls,         \* the driver operations the last handler issued, in order
    navigation,    \* how driver.get ended in the last process_request
    waiting,       \* how WebDriverWait.until ended in the last process_request
    closed,        \* the spider_closed signal has been delivered
    seleniumSeen   \* some SeleniumRequest has been processed

vars == <<settings, outcome, connected, middleware, drivers, handler, request,
          meta, result, calls, navigation, waiting, closed, seleniumSeen>>

----------------------------------------------------------------------------
(* Bounds of the model *)

MaxCookies == 2        \* most cookies of one request

(* Python values *)

PyNone == [py |-> "None"]
PyNum(n) == [py |-> "number", n |-> n]
PyStr(s) == [py |-> "str", s |-> s]
PyList(items) == [py |-> "list", items |-> items]
PyDict(items) == [py |-> "dict", items |-> items]
PyCookie(name, value) == [py |-> "cookie", name |-> name, value |-> value]

Prefixes(s, n) == {SubSeq(s, 1, k) : k \in 0..n}

NoDriver == 0
AboutBlank == [url |-> "about:blank"]

----------------------------------------------------------------------------
(* crawler.settings: Settings.get answers None for a setting that is unset, *)
(* Settings.getfloat always answers a number                                *)

DriverNames == {PyNone, PyStr("firefox")}
DriverExecutablePaths == {PyNone, PyStr("/usr/bin/geckodriver")}
BrowserExecutablePaths == {PyNone, PyStr("/usr/bin/firefox")}
CommandExecutors == {PyNone, PyStr("http://hub:4444/wd/hub")}
DriverArguments == {PyNone, PyList(<<"-headless">>)}
DownloadTimeouts == {PyNum(180), PyNum(10)}

Settings ==
    [SELENIUM_DRIVER_NAME : DriverNames,
     SELENIUM_DRIVER_EXECUTABLE_PATH : DriverExecutablePaths,
     SELENIUM_BROWSER_EXECUTABLE_PATH : BrowserExecutablePaths,
     SELENIUM_COMMAND_EXECUTOR : CommandExecutors,
     SELENIUM_DRIVER_ARGUMENTS : DriverArguments,
     DOWNLOAD_TIMEOUT : DownloadTimeouts]

----------------------------------------------------------------------------
(* SeleniumMiddleware.__init__ *)

\* Python truthiness of the values the handlers test
Truthy(v) ==
    CASE v.py = "None" -> FALSE
      [] v.py = "str" -> v.s # ""
      [] v.py = "list" -> Len(v.items) > 0
      [] v.py = "dict" -> Len(v.items) > 0
      [] OTHER -> TRUE

\* `for argument in driver_arguments` raises TypeError on None
Iterable(v) == v.py \in {"list", "dict", "str"}

\* driver_options: binary_location set only for a truthy browser path,
\* one add_argument per driver argument
DriverOptions(browser_executable_path, driver_arguments) ==
    [binary_location |-> IF Truthy(browser_executable_path)
                         THEN browser_executable_path ELSE PyStr(""),
     arguments |-> driver_arguments.items]

NewDriver(kind, endpoint, options) ==
    [kind |-> kind, endpoint |-> endpoint, options |-> options,
     page_load_timeout |-> PyNone, page |-> AboutBlank, quit_calls |-> 0]

\* a plausible slip: `if` for the remote driver where the code has `elif`
InitDriversBoth(drvs, driver_executable_path, command_executor, options) ==
    LET local == IF driver_executable_path # PyNone
                 THEN Append(drvs, NewDriver("local", driver_executable_path, options))
                 ELSE drvs
    IN  IF command_executor # PyNone
        THEN Append(local, NewDriver("remote", command_executor, options))
        ELSE local

\* a plausible slip: the constructor starts no driver (left to the first request)
InitDriversLazy(drvs, driver_executable_path, command_executor, options) ==
    drvs

\* the drivers after __init__: a local driver when driver_executable_path is
\* given, else a remote one when command_executor is given, else none
InitDrivers(drvs, driver_executable_path, command_executor, options) ==
    IF driver_executable_path # PyNone
    THEN Append(drvs, NewDriver("local", driver_executable_path, options))
    ELSE IF command_executor # PyNone
    THEN Append(drvs, NewDriver("remote", command_executor, options))
    ELSE drvs

\* the object __init__ leaves: self.timeout, and self.driver when one was made
NewMiddleware(timeout, before, after) ==
    [timeout |-> timeout,
     driver |-> IF Len(after) > Len(before) THEN Len(after) ELSE NoDriver]

NoMiddleware == [timeout |-> PyNone, driver |-> NoDriver]

----------------------------------------------------------------------------
(* SeleniumMiddleware.from_crawler *)

FromCrawler ==
    /\ outcome = "pending"
    /\ handler' = "from_crawler"
    /\ LET driver_name == settings.SELENIUM_DRIVER_NAME
           driver_executable_path == settings.SELENIUM_DRIVER_EXECUTABLE_PATH
           browser_executable_path == settings.SELENIUM_BROWSER_EXECUTABLE_PATH
           command_executor == settings.SELENIUM_COMMAND_EXECUTOR
           driver_arguments == settings.SELENIUM_DRIVER_ARGUMENTS
           timeout == settings.DOWNLOAD_TIMEOUT
       IN  IF driver_name = PyNone
           THEN /\ outcome' = "NotConfigured"
                /\ UNCHANGED <<middleware, drivers, connected>>
           ELSE IF driver_executable_path = PyNone /\ command_executor = PyNone
           THEN /\ outcome' = "NotConfigured"
                /\ UNCHANGED <<middleware, drivers, connected>>
           ELSE IF ~Iterable(driver_arguments)
           THEN \* __init__ raises in its `for argument in driver_arguments`
                /\ outcome' = "TypeError"
                /\ UNCHANGED <<middleware, drivers, connected>>
           ELSE /\ drivers' = InitDrivers(drivers, driver_executable_path,
                        command_executor,
                        DriverOptions(browser_executable_path, driver_arguments))
                /\ middleware' = NewMiddleware(timeout, drivers, drivers')
                /\ connected' = TRUE
                /\ outcome' = "middleware"
    /\ UNCHANGED <<settings, request, meta, result, calls, navigation, waiting,
                   closed, seleniumSeen>>

----------------------------------------------------------------------------
(* The requests handed to process_request *)

CookieNames == <<"sid", "lang", "theme", "tz">>
CookieValue(name) == name \o "-value"

\* request.cookies as a list of cookie records
CookieLists ==
    {PyList([i \in DOMAIN names |-> PyCookie(names[i], CookieValue(names[i]))]) :
        names \in Prefixes(CookieNames, MaxCookies)}

\* request.cookies as a dict from name to value, entries in insertion order
CookieDicts ==
    {PyDict([i \in DOMAIN names |-> <<names[i], CookieValue(names[i])>>]) :
        names \in Prefixes(CookieNames, MaxCookies)}

NoScreenshot == PyNone
StaleScreenshot == [py |-> "bytes", page |-> AboutBlank]
Metas == [screenshot : {NoScreenshot, StaleScreenshot}]

SeleniumRequests ==
    [isSelenium : {TRUE},
     url : {"http://site/page"},
     timeout : {PyNone, PyNum(5), PyStr("5")},
     cookies : CookieLists \cup CookieDicts,
     wait_until : {PyNone, [py |-> "callable"]},
     wait_time : {PyNum(10)},
     screenshot : BOOLEAN,
     script_dict_list : {PyNone, PyList(<<>>), PyList(<<"scroll">>)},
     meta : {[screenshot |-> NoScreenshot]}]

\* a plain scrapy Request: none of the SeleniumRequest attributes is read
PlainRequests ==
    [isSelenium : {FALSE},
     url : {"http://site/page"},
     timeout : {PyNone},
     cookies : {PyDict(<<>>), PyList(<<PyCookie("sid", "sid-value")>>)},
     wait_until : {PyNone},
     wait_time : {PyNone},
     screenshot : {FALSE},
     script_dict_list : {PyNone},
     meta : Metas]

NoRequest == CHOOSE r \in PlainRequests : r.meta.screenshot = NoScreenshot

----------------------------------------------------------------------------
(* SeleniumMiddleware.process_request *)

Call(d, op, arg) == [driver |-> d, op |-> op, arg |-> arg]
OpNames(cs) == [i \in DOMAIN cs |-> cs[i].op]

DefaultTimeout == 30

\* a plausible slip: `if not applicable` dropped
IsSeleniumRequestAny(req) == TRUE

\* isinstance(request, SeleniumRequest)
IsSeleniumRequest(req) == req.isSelenium

\* a plausible slip: the middleware's DOWNLOAD_TIMEOUT is never consulted
ResolveTimeoutNoFallback(requestTimeout, selfTimeout) ==
    IF requestTimeout.py = "number" THEN requestTimeout ELSE PyNum(DefaultTimeout)

\* the request's timeout, self.timeout when that is None, 30 when the chosen
\* value is no int or float
ResolveTimeout(requestTimeout, selfTimeout) ==
    LET timeout == IF requestTimeout = PyNone THEN selfTimeout ELSE requestTimeout
    IN  IF timeout.py # "number" THEN PyNum(DefaultTimeout) ELSE timeout

\* hasattr(value, "__iter__"): lists, dicts and strings all have it
HasIter(v) == v.py \in {"list", "dict", "str"}

\* `for cookie in value`: a list yields its items, a dict yields its keys
Iterate(v) ==
    IF v.py = "dict"
    THEN [i \in DOMAIN v.items |-> PyStr(v.items[i][1])]
    ELSE v.items

\* `for cookie_name, cookie_value in value.items()`
ItemsOf(v) == [i \in DOMAIN v.items |-> PyCookie(v.items[i][1], v.items[i][2])]

\* the arguments of the add_cookie calls, in order
CookieArguments(cookies) ==
    IF HasIter(cookies) THEN Iterate(cookies) ELSE ItemsOf(cookies)

\* a plausible slip: the TimeoutException of driver.get is swallowed
NavigationResultSwallowed(nav) == "ok"

\* try: driver.get(url) / except TimeoutException: raise IgnoreRequest(...)
NavigationResult(nav) ==
    IF nav = "TimeoutException" THEN "IgnoreRequest" ELSE "ok"

\* a plausible slip: the wait sits inside the try block of the navigation
WaitResultRemapped(wait) ==
    IF wait = "TimeoutException" THEN "IgnoreRequest" ELSE "ok"

\* WebDriverWait(...).until(...) is outside any try: its exception propagates
WaitResult(wait) ==
    IF wait = "TimeoutException" THEN "TimeoutException" ELSE "ok"

\* what generate_scrapy_response(driver=self.driver, request=request) is handed
Response(d, req) == [py |-> "response", driver |-> d, url |-> req.url]

\* driver.get_screenshot_as_png(): the page the driver shows
Screenshot(drv) == [py |-> "bytes", page |-> drv.page]

\* a plausible slip: the scripts run before the screenshot is taken
AfterWaitScriptsFirst(d, drv, req) ==
    LET run == Truthy(req.script_dict_list) /\ Len(req.script_dict_list.items) > 0
        c1 == IF run
              THEN <<Call(d, "handle_selenium_scripts", req.script_dict_list)>>
              ELSE <<>>
        c2 == IF req.screenshot
              THEN <<Call(d, "get_screenshot_as_png", PyNone)>> ELSE <<>>
        meta1 == IF req.screenshot
                 THEN [req.meta EXCEPT !.screenshot = Screenshot(drv)]
                 ELSE req.meta
    IN  [calls |-> c1 \o c2 \o <<Call(d, "generate_scrapy_response", PyNone)>>,
         driver |-> drv,
         meta |-> meta1,
         result |-> Response(d, req)]

\* the steps after the wait: screenshot into request.meta, scripts, response
AfterWait(d, drv, req) ==
    LET c1 == IF req.screenshot
              THEN <<Call(d, "get_screenshot_as_png", PyNone)>> ELSE <<>>
        meta1 == IF req.screenshot
                 THEN [req.meta EXCEPT !.screenshot = Screenshot(drv)]
                 ELSE req.meta
        run == Truthy(req.script_dict_list) /\ Len(req.script_dict_list.items) > 0
        c2 == IF run
              THEN <<Call(d, "handle_selenium_scripts", req.script_dict_list)>>
              ELSE <<>>
    IN  [calls |-> c1 \o c2 \o <<Call(d, "generate_scrapy_response", PyNone)>>,
         driver |-> drv,
         meta |-> meta1,
         result |-> Response(d, req)]

\* the steps from the navigation on; nav and wait are what the browser does
FromNavigation(d, drv, req, nav, wait) ==
    LET get == Call(d, "get", [url |-> req.url,
                               page_load_timeout |-> drv.page_load_timeout])
        drv1 == [drv EXCEPT !.page = [url |-> req.url]]
        until == Call(d, "until", [wait_time |-> req.wait_time])
        waits == Truthy(req.wait_until)
    IN  IF NavigationResult(nav) # "ok"
        THEN [calls |-> <<get>>, driver |-> drv1, meta |-> req.meta,
              result |-> [py |-> NavigationResult(nav), cause |-> "TimeoutError"],
              navigation |-> nav, waiting |-> "not_run"]
        ELSE IF waits /\ WaitResult(wait) # "ok"
        THEN [calls |-> <<get, until>>, driver |-> drv1, meta |-> req.meta,
              result |-> [py |-> WaitResult(wait), cause |-> "until"],
              navigation |-> nav, waiting |-> wait]
        ELSE LET rest == AfterWait(d, drv1, req)
             IN  [calls |-> <<get>> \o (IF waits THEN <<until>> ELSE <<>>) \o rest.calls,
                  driver |-> rest.driver, meta |-> rest.meta, result |-> rest.result,
                  navigation |-> nav,
                  waiting |-> IF waits THEN wait ELSE "not_run"]

\* process_request as a whole: what it issues, leaves and returns
Process(mw, drvs, req, nav, wait) ==
    IF ~IsSeleniumRequest(req)
    THEN [calls |-> <<>>, drivers |-> drvs, meta |-> req.meta, result |-> PyNone,
          navigation |-> "not_run", waiting |-> "not_run"]
    ELSE IF mw.driver = NoDriver
    THEN \* self.driver was never assigned
         [calls |-> <<>>, drivers |-> drvs, meta |-> req.meta,
          result |-> [py |-> "AttributeError", cause |-> "driver"],
          navigation |-> "not_run", waiting |-> "not_run"]
    ELSE LET d == mw.driver
             timeout == ResolveTimeout(req.timeout, mw.timeout)
             drv1 == [drvs[d] EXCEPT !.page_load_timeout = timeout]
             args == CookieArguments(req.cookies)
             head == <<Call(d, "set_page_load_timeout", timeout)>>
                     \o [i \in DOMAIN args |-> Call(d, "add_cookie", args[i])]
             rest == FromNavigation(d, drv1, req, nav, wait)
         IN  [calls |-> head \o rest.calls,
              drivers |-> [drvs EXCEPT ![d] = rest.driver],
              meta |-> rest.meta, result |-> rest.result,
              navigation |-> rest.navigation, waiting |-> rest.waiting]

\* how the browser may answer: only a navigation that ended can be waited on
NavigationOutcomes(req) ==
    IF req.isSelenium THEN {"ok", "TimeoutException"} ELSE {"ok"}
WaitOutcomes(req, nav) ==
    IF req.isSelenium /\ nav = "ok" /\ Truthy(req.wait_until)
    THEN {"ok", "TimeoutException"} ELSE {"ok"}

ProcessRequest ==
    /\ outcome = "middleware"
    /\ ~closed
    /\ \E req \in SeleniumRequests \cup PlainRequests :
       \E nav \in NavigationOutcomes(req) :
       \E wait \in WaitOutcomes(req, nav) :
       \E r \in {Process(middleware, drivers, req, nav, wait)} :
              /\ request' = req
              /\ meta' = r.meta
              /\ result' = r.result
              /\ calls' = r.calls
              /\ drivers' = r.drivers
              /\ navigation' = r.navigation
              /\ waiting' = r.waiting
              /\ seleniumSeen' = (seleniumSeen \/ req.isSelenium)
    /\ handler' = "process_request"
    /\ UNCHANGED <<settings, outcome, connected, middleware, closed>>

----------------------------------------------------------------------------
(* SeleniumMiddleware.spider_closed, run when the crawler fires the signal *)

\* a plausible slip: the handler forgets the driver
QuitNothing(drv) == drv

\* driver.quit()
Quit(drv) == [drv EXCEPT !.quit_calls = @ + 1]

SpiderClosed ==
    /\ connected
    /\ ~closed
    /\ closed' = TRUE
    /\ handler' = "spider_closed"
    /\ drivers' = [drivers EXCEPT ![middleware.driver] = Quit(@)]
    /\ calls' = <<Call(middleware.driver, "quit", PyNone)>>
    /\ UNCHANGED <<settings, outcome, connected, middleware, request, meta, result,
                   navigation, waiting, seleniumSeen>>

----------------------------------------------------------------------------

Init ==
    /\ settings \in Settings
    /\ outcome = "pending"
    /\ connected = FALSE
    /\ middleware = NoMiddleware
    /\ drivers = <<>>
    /\ handler = "none"
    /\ request = NoRequest
    /\ meta = NoRequest.meta
    /\ result = PyNone
    /\ calls = <<>>
    /\ navigation = "not_run"
    /\ waiting = "not_run"
    /\ closed = FALSE
    /\ seleniumSeen = FALSE

Next == FromCrawler \/ ProcessRequest \/ SpiderClosed

Spec == Init /\ [][Next]_vars

----------------------------------------------------------------------------
(* Properties *)

Processed == handler = "process_request"
ProcessedSelenium == Processed /\ request.isSelenium
HasOp(op) == \E i \in DOMAIN calls : calls[i].op = op
LaterSteps == {"until", "get_screenshot_as_png", "handle_selenium_scripts",
               "generate_scrapy_response"}
Repeat(x, n) == [i \in 1..n |-> x]

\* C1: a middleware returned by from_crawler has a driver, it is the only
\* driver ever constructed, and every driver operation of every handler,
\* navigation timeouts included, is issued to that driver.
C1_OneDriver ==
    outcome = "middleware" =>
        /\ middleware.driver \in DOMAIN drivers
        /\ Len(drivers) = 1
        /\ \A i \in DOMAIN calls : calls[i].driver = middleware.driver

C1_Witness ==
    /\ outcome = "middleware"
    /\ ProcessedSelenium
    /\ navigation = "TimeoutException"
    /\ settings.SELENIUM_DRIVER_EXECUTABLE_PATH # PyNone
    /\ settings.SELENIUM_COMMAND_EXECUTOR # PyNone
    /\ Len(calls) > 1

\* C2 as stated: a driver exists only once a SeleniumRequest has been
\* processed (the driver is started lazily).
C2_LazyDriver == Len(drivers) > 0 => seleniumSeen

\* C2 amended: the driver is started by the construction of the middleware
\* and by nothing else: there is exactly one driver as soon as from_crawler
\* has returned a middleware, whatever requests were processed, and none
\* otherwise.
C2_EagerDriver == Len(drivers) = (IF outcome = "middleware" THEN 1 ELSE 0)

C2_Witness ==
    /\ outcome = "middleware"
    /\ closed
    /\ ~seleniumSeen
    /\ Len(drivers) = 1

\* C3: from_crawler ends with NotConfigured, no driver and no connected
\* handler when SELENIUM_DRIVER_NAME is unset or both the executable path
\* and the command executor are unset; in every other configuration it
\* returns a middleware with a driver and spider_closed connected.
C3_FromCrawler ==
    outcome # "pending" =>
        IF \/ settings.SELENIUM_DRIVER_NAME = PyNone
           \/ /\ settings.SELENIUM_DRIVER_EXECUTABLE_PATH = PyNone
              /\ settings.SELENIUM_COMMAND_EXECUTOR = PyNone
        THEN outcome = "NotConfigured" /\ drivers = <<>> /\ ~connected
        ELSE outcome = "middleware" /\ Len(drivers) = 1 /\ connected

\* C4: process_request on a request that is no SeleniumRequest returns None,
\* issues no driver operation and leaves request.meta as it was.
C4_PlainRequestUntouched ==
    (Processed /\ ~request.isSelenium) =>
        /\ result = PyNone
        /\ calls = <<>>
        /\ meta = request.meta
        /\ navigation = "not_run"
        /\ waiting = "not_run"

C4_Witness ==
    /\ Processed
    /\ ~request.isSelenium
    /\ seleniumSeen
    /\ request.meta.screenshot = StaleScreenshot
    /\ result = PyNone

\* C5: when driver.get times out, process_request raises IgnoreRequest
\* wrapping a TimeoutError, the navigation is the last driver operation (no
\* wait, screenshot, script or response) and request.meta is not written.
C5_NavigationTimeoutIgnored ==
    (Processed /\ navigation = "TimeoutException") =>
        /\ result.py = "IgnoreRequest"
        /\ result.cause = "TimeoutError"
        /\ calls[Len(calls)].op = "get"
        /\ \A op \in LaterSteps : ~HasOp(op)
        /\ meta = request.meta

C5_Witness ==
    /\ Processed
    /\ navigation = "TimeoutException"
    /\ result.py = "IgnoreRequest"
    /\ request.screenshot
    /\ Truthy(request.wait_until)
    /\ Truthy(request.script_dict_list)

\* C6: the driver is quit by spider_closed and by nothing else: the
\* middleware's driver has been quit exactly when the signal has been
\* delivered, no other handler issues quit, and a middleware built by
\* from_crawler has the handler connected.
C6_QuitOnSpiderClosed ==
    /\ \A d \in DOMAIN drivers :
          drivers[d].quit_calls = (IF closed /\ d = middleware.driver THEN 1 ELSE 0)
    /\ HasOp("quit") => handler = "spider_closed"
    /\ outcome = "middleware" => connected
    /\ closed => outcome = "middleware"

C6_Witness ==
    /\ closed
    /\ seleniumSeen
    /\ navigation = "TimeoutException"
    /\ drivers[middleware.driver].quit_calls = 1
    /\ calls = <<Call(middleware.driver, "quit", PyNone)>>

\* C7: a SeleniumRequest that completes has issued, in this order: the
\* page-load timeout, one add_cookie per cookie, the navigation, the wait
\* (only with wait_until), the screenshot (only with request.screenshot,
\* stored in request.meta), the scripts (only with a non-empty
\* script_dict_list), the response; so the screenshot precedes the scripts.
C7_StepOrder ==
    (Processed /\ result.py = "response") =>
        /\ OpNames(calls) =
              <<"set_page_load_timeout">>
              \o Repeat("add_cookie", Len(request.cookies.items))
              \o <<"get">>
              \o (IF request.wait_until # PyNone THEN <<"until">> ELSE <<>>)
              \o (IF request.screenshot THEN <<"get_screenshot_as_png">> ELSE <<>>)
              \o (IF request.script_dict_list \notin {PyNone, PyList(<<>>)}
                  THEN <<"handle_selenium_scripts">> ELSE <<>>)
              \o <<"generate_scrapy_response">>
        /\ request.screenshot =>
               meta.screenshot = [py |-> "bytes", page |-> [url |-> request.url]]
        /\ ~request.screenshot => meta = request.meta

C7_Witness ==
    /\ Processed
    /\ result.py = "response"
    /\ Len(request.cookies.items) = MaxCookies
    /\ request.wait_until # PyNone
    /\ request.screenshot
    /\ Truthy(request.script_dict_list)

\* C8: the page-load timeout of a SeleniumRequest is the request's timeout
\* when that is not None, else DOWNLOAD_TIMEOUT, and 30 when the chosen value
\* is no number; it is set first, and it is the one in force at navigation.
C8_TimeoutResolved ==
    ProcessedSelenium =>
        LET chosen == IF request.timeout # PyNone THEN request.timeout
                      ELSE settings.DOWNLOAD_TIMEOUT
            expected == IF chosen.py = "number" THEN chosen ELSE PyNum(30)
        IN  /\ calls[1] = Call(middleware.driver, "set_page_load_timeout", expected)
            /\ \A i \in DOMAIN calls :
                  calls[i].op = "get" =>
                      i > 1 /\ calls[i].arg.page_load_timeout = expected
            /\ HasOp("get")
            /\ drivers[middleware.driver].page_load_timeout = expected

C8_Witness ==
    /\ ProcessedSelenium
    /\ request.timeout = PyNone
    /\ settings.DOWNLOAD_TIMEOUT = PyNum(10)
    /\ HasOp("get")
    /\ drivers[middleware.driver].page_load_timeout = PyNum(10)

\* C9: a timeout of the wait for wait_until, after a navigation that ended,
\* leaves process_request as the driver's TimeoutException, not as
\* IgnoreRequest; the wait is the last driver operation and request.meta is
\* not written.
C9_WaitTimeoutPropagates ==
    (Processed /\ waiting = "TimeoutException") =>
        /\ navigation = "ok"
        /\ result.py = "TimeoutException"
        /\ calls[Len(calls)].op = "until"
        /\ \A op \in LaterSteps \ {"until"} : ~HasOp(op)
        /\ meta = request.meta

C9_Witness ==
    /\ Processed
    /\ waiting = "TimeoutException"
    /\ result.py = "TimeoutException"
    /\ request.screenshot
    /\ Truthy(request.script_dict_list)

\* C10: add_cookie is called once per cookie: with the record itself for a
\* list of cookie records, with {'name': name, 'value': value} for each entry
\* of a mapping from name to value.
C10_CookieShapes ==
    ProcessedSelenium =>
        LET added == SelectSeq(calls, LAMBDA c : c.op = "add_cookie")
            items == request.cookies.items
        IN  [i \in DOMAIN added |-> added[i].arg] =
                IF request.cookies.py = "list"
                THEN items
                ELSE [i \in DOMAIN items |-> PyCookie(items[i][1], items[i][2])]

====
